---- MODULE Spec2Model ----
(***************************************************************************)
(* Model of the recording / transcription core of src/main.py:             *)
(*   auto_punctuate, AudioRecorder, VoicyController.                       *)
(* Threads call the controller's three entry points (or, in RecorderSpec,  *)
(* the recorder's two methods directly); the audio callback and the        *)
(* transcription workers run beside them.  Every statement that touches    *)
(* shared state is one step; a `with lock:` block whose body is a single    *)
(* access is an acquire step followed by the access-and-release step.      *)
(***************************************************************************)
EXTENDS Integers, Sequences, FiniteSets, TLC

\* ------------------------------------------------------------------ bounds
MaxCalls    == 3   \* trigger calls begun in one run of Spec (concurrent)
MaxSeqCalls == 4   \* trigger calls begun in one run of SeqSpec (sequential)
MaxRecCalls == 4   \* recorder calls begun in one run of RecorderSpec
MaxFrames   == 2   \* frame blocks the audio callback delivers in one run
MaxFailures == 1   \* device calls (open / close) that raise in one run
MaxFairCalls == 3  \* trigger calls begun in FairSpec
MaxLen      == 3   \* length of the texts given to auto_punctuate

\* The threads that raise trigger events: the keyboard listener (main.py
\* lines 382-395) and the GUI thread (mousePressEvent, line 363).
Threads == {"kb", "ui"}

NoThread == "nobody"
NoStream == 0

VARIABLES
    recording,   \* VoicyController._recording
    ctlLock,     \* holder of VoicyController._lock
    stream,      \* AudioRecorder._stream: NoStream or the id of a stream object
    live,        \* device streams constructed and not yet closed
    active,      \* device streams started and not yet stopped (callback runs)
    opened,      \* number of stream objects constructed so far
    queue,       \* AudioRecorder._queue
    frameNo,     \* number of frame blocks delivered so far
    produced,    \* history: the samples delivered so far, in order
    recLock,     \* holder of AudioRecorder._lock
    pc,          \* position of each thread
    call,        \* entry point each thread is executing
    val,         \* argument of _set_recording
    frames,      \* local list `frames` of stop_and_get_audio
    audio,       \* value returned by stop_and_get_audio
    exc,         \* an exception left the entry point
    callBefore,  \* history: the flag when the call began
    callEmits,   \* history: recording_changed values the call emitted
    openFailed,  \* history: the device open raised during the call
    closedSid,   \* history: the stream the call's stop_and_get_audio closed
    spawned,     \* history: index of the worker the call started (0: none)
    ncalls,      \* calls begun
    nfail,       \* device failures so far
    workers,     \* transcription worker threads
    published,   \* text_ready emissions, in order
    lastNotif,   \* history: the last recording_changed value emitted
    autoPunct,   \* config["auto_punct"]
    input,       \* text given to auto_punctuate (PunctSpec)
    output       \* its result (PunctSpec)

ctlVars  == <<recording, ctlLock>>
recVars  == <<stream, live, active, opened, queue, frameNo, produced, recLock>>
thrVars  == <<pc, call, val, frames, audio, exc>>
histVars == <<callBefore, callEmits, openFailed, closedSid, spawned>>
cntVars  == <<ncalls, nfail>>
wrkVars  == <<workers, published, autoPunct>>
punVars  == <<input, output>>
sigVars  == <<lastNotif>>
vars == <<ctlVars, recVars, thrVars, histVars, cntVars, wrkVars, punVars, sigVars>>

\* ------------------------------------------------------------ Optional[T]
NoAudio == [none |-> TRUE, data |-> <<>>]
Some(d) == [none |-> FALSE, data |-> d]

\* ------------------------------------------------------------ text helpers
\* Texts are sequences of characters.  "sz" stands for the sharp s, whose
\* str.upper() is the two characters "SS".
Alphabet == {"a", "A", " ", ".", "?", "!", "sz"}
Terminal == {".", "?", "!"}

Upper(c) == CASE c = "a"  -> <<"A">>
              [] c = "sz" -> <<"S", "S">>
              [] OTHER    -> <<c>>

RECURSIVE LStrip(_)
LStrip(s) == IF s # <<>> /\ Head(s) = " " THEN LStrip(Tail(s)) ELSE s

RECURSIVE RStrip(_)
RStrip(s) == IF s # <<>> /\ s[Len(s)] = " "
             THEN RStrip(SubSeq(s, 1, Len(s) - 1)) ELSE s

Strip(s) == RStrip(LStrip(s))

Contains(s, chars) == \E i \in 1..Len(s) : s[i] \in chars

\* str.join of the segment texts with single spaces (main.py line 207).
RECURSIVE Join(_)
Join(parts) == IF parts = <<>> THEN <<>>
               ELSE IF Len(parts) = 1 THEN parts[1]
               ELSE parts[1] \o <<" ">> \o Join(Tail(parts))

\* ----------------------------------------------------------- auto_punctuate
\* Mutant: the period is appended whatever the last character is.
auto_punctuate_always_appends(text) ==
    LET t0 == Strip(text) IN
    IF t0 = <<>> THEN t0 ELSE Upper(t0[1]) \o Tail(t0) \o <<".">>

\* Mutant: the first character keeps its case.
auto_punctuate_keeps_case(text) ==
    LET t == Strip(text) IN
    IF t = <<>> THEN t
    ELSE IF t[Len(t)] \notin Terminal THEN t \o <<".">> ELSE t

auto_punctuate(text) ==
    LET t0 == Strip(text) IN
    IF t0 = <<>> THEN t0
    ELSE LET t == Upper(t0[1]) \o Tail(t0) IN
         IF ~Contains(t, Terminal) THEN t \o <<".">>
         ELSE IF t[Len(t)] \notin Terminal THEN t \o <<".">>
         ELSE t

\* ------------------------------------------------------------ AudioRecorder
Channels == 1

\* A frame block as the callback receives it: one row of Channels samples.
\* A sample encodes the stream that produced it and the block's number.
Sample(sid, no) == sid * 10 + no
SidOf(sample)   == sample \div 10
Block(sid, no)  == << [c \in 1..Channels |-> Sample(sid, no)] >>

RECURSIVE Concatenate(_)
Concatenate(fs) == IF fs = <<>> THEN <<>> ELSE Head(fs) \o Concatenate(Tail(fs))

RECURSIVE Sum(_)
Sum(row) == IF row = <<>> THEN 0 ELSE Head(row) + Sum(Tail(row))

\* Lines 130-135: concatenate the blocks, then one value per row.
Downmix(fs) ==
    LET a == Concatenate(fs) IN
    IF Channels > 1 THEN [i \in 1..Len(a) |-> Sum(a[i]) \div Len(a[i])]
    ELSE [i \in 1..Len(a) |-> a[i][1]]

\* Line 127: `if not frames: return None`.
DrainResult(fs) == IF fs = <<>> THEN NoAudio ELSE Some(Downmix(fs))

\* Mutant: start() without its test of _stream.
StartIsNoOp_never == FALSE

\* Line 98: `if self._stream is not None: return`.
StartIsNoOp == stream # NoStream

\* Mutant: stop_and_get_audio() without its test of _stream.
StopIsNoOp_never == FALSE

\* Line 114: `if self._stream is None: return None`.
StopIsNoOp == stream = NoStream

\* _callback (lines 91-94), run by the device for a started stream.
AudioCallback ==
    /\ frameNo < MaxFrames
    /\ \E s \in active :
          /\ queue' = Append(queue, Block(s, frameNo + 1))
          /\ frameNo' = frameNo + 1
          /\ produced' = Append(produced, Sample(s, frameNo + 1))
    /\ UNCHANGED <<ctlVars, stream, live, active, opened, recLock, thrVars,
                   histVars, cntVars, wrkVars, punVars, sigVars>>

\* ---------------------------------------------------------- VoicyController
Triggers == {"hold_to_talk_down", "hold_to_talk_up", "toggle_recording"}
Direct   == {"start", "stop_and_get_audio"}

\* Mutant: hold_to_talk_down without its test of the flag.
hold_to_talk_down_unguarded(r) == "_start_recording"

\* Mutant: toggle_recording that starts whatever the flag is.
toggle_recording_always_starts(r) == "_start_recording"

\* What each entry point does with the flag it read (lines 160-174).
hold_to_talk_down(r) == IF r THEN "return" ELSE "_start_recording"
hold_to_talk_up(r)   == IF ~r THEN "return" ELSE "_stop_and_transcribe"
toggle_recording(r)  == IF r THEN "_stop_and_transcribe" ELSE "_start_recording"

Decision(c, r) == CASE c = "hold_to_talk_down" -> hold_to_talk_down(r)
                    [] c = "hold_to_talk_up"   -> hold_to_talk_up(r)
                    [] c = "toggle_recording"  -> toggle_recording(r)

\* Mutant: _stop_and_transcribe without its test of the audio.
NothingToSubmit_never(a) == FALSE

\* Line 191: `if audio is None or len(audio) == 0: return`.
NothingToSubmit(a) == a.none \/ Len(a.data) = 0

\* A worker thread: its clip, its position, the text it is about to emit; as
\* history, the session the clip was cut from and what the model call did.
NewWorker(a, sid) ==
    [clip |-> a.data, sid |-> sid, st |-> "infer", text |-> <<>>,
     out |-> [raises |-> FALSE, segs |-> <<>>]]

\* recorder.start() returned normally: a direct call is over; in
\* _start_recording line 179, _set_recording(True), follows.
StartReturns(t) ==
    /\ pc' = [pc EXCEPT ![t] = IF call[t] \in Direct THEN "done" ELSE "set_acq"]
    /\ val' = [val EXCEPT ![t] = (call[t] \notin Direct)]
    /\ UNCHANGED <<exc, openFailed>>

\* Mutant: _set_recording(True) in a `finally`, run after a failed start too.
StartRaises_sets_flag(t) ==
    /\ pc' = [pc EXCEPT ![t] = IF call[t] \in Direct THEN "done" ELSE "set_acq"]
    /\ val' = [val EXCEPT ![t] = (call[t] \notin Direct)]
    /\ exc' = [exc EXCEPT ![t] = (call[t] \in Direct)]
    /\ openFailed' = [openFailed EXCEPT ![t] = TRUE]

\* recorder.start() raised: a direct caller sees the exception; in
\* _start_recording the except clause (lines 180-181) logs it and returns.
StartRaises(t) ==
    /\ pc' = [pc EXCEPT ![t] = "done"]
    /\ exc' = [exc EXCEPT ![t] = (call[t] \in Direct)]
    /\ openFailed' = [openFailed EXCEPT ![t] = TRUE]
    /\ UNCHANGED val

\* stop_and_get_audio() returned a: a direct call is over; _stop_and_transcribe
\* (lines 191-196) returns or starts a worker thread on the clip.
StopReturns(t, a) ==
    /\ audio' = [audio EXCEPT ![t] = a]
    /\ pc' = [pc EXCEPT ![t] = "done"]
    /\ IF call[t] \in Direct \/ NothingToSubmit(a)
       THEN UNCHANGED <<workers, spawned>>
       ELSE /\ workers' = Append(workers, NewWorker(a, closedSid[t]))
            /\ spawned' = [spawned EXCEPT ![t] = Len(workers) + 1]
    /\ UNCHANGED exc

\* stop_and_get_audio() raised: a direct caller sees the exception; in
\* _stop_and_transcribe the except clause (lines 187-189) sets audio = None.
StopRaises(t) ==
    /\ audio' = [audio EXCEPT ![t] = NoAudio]
    /\ pc' = [pc EXCEPT ![t] = "done"]
    /\ exc' = [exc EXCEPT ![t] = (call[t] \in Direct)]
    /\ UNCHANGED <<workers, spawned>>

\* ------------------------------------------------- AudioRecorder.start steps
\* Mutant: the stale frames are discarded before _stream is tested.
StartEnter_clears_first(t) ==
    /\ pc[t] = "rs_enter"
    /\ recLock = NoThread
    /\ queue' = <<>>
    /\ IF stream # NoStream
       THEN /\ StartReturns(t)
            /\ UNCHANGED recLock
       ELSE /\ recLock' = t
            /\ pc' = [pc EXCEPT ![t] = "rs_drain"]
            /\ UNCHANGED <<val, exc, openFailed>>
    /\ UNCHANGED <<ctlVars, stream, live, active, opened, frameNo,
                   produced, call, frames, audio, callBefore, callEmits,
                   closedSid, spawned, cntVars, wrkVars, punVars, sigVars>>

\* Lines 97-99: take the lock and test _stream; with a stream set the call
\* returns at once (the lock is released by the `with`).
StartEnter(t) ==
    /\ pc[t] = "rs_enter"
    /\ recLock = NoThread
    /\ IF StartIsNoOp
       THEN /\ StartReturns(t)
            /\ UNCHANGED recLock
       ELSE /\ recLock' = t
            /\ pc' = [pc EXCEPT ![t] = "rs_drain"]
            /\ UNCHANGED <<val, exc, openFailed>>
    /\ UNCHANGED <<ctlVars, stream, live, active, opened, queue, frameNo,
                   produced, call, frames, audio, callBefore, callEmits, closedSid,
                   spawned, cntVars, wrkVars, punVars, sigVars>>

\* Lines 100-104: one iteration of the loop that discards stale frames.
StartDrain(t) ==
    /\ pc[t] = "rs_drain"
    /\ queue # <<>>
    /\ queue' = Tail(queue)
    /\ UNCHANGED <<ctlVars, stream, live, active, opened, frameNo, produced, recLock,
                   thrVars, histVars, cntVars, wrkVars, punVars, sigVars>>

\* Lines 105-110 with the queue found empty: construct the stream, start it,
\* leave the `with`.  Either device call may raise.
StartOpen(t) ==
    /\ pc[t] = "rs_drain"
    /\ queue = <<>>
    /\ recLock' = NoThread
    /\ \/ /\ opened' = opened + 1
          /\ stream' = opened + 1
          /\ live' = live \cup {opened + 1}
          /\ active' = active \cup {opened + 1}
          /\ StartReturns(t)
          /\ UNCHANGED nfail
       \/ /\ nfail < MaxFailures            \* sd.InputStream(...) raises
          /\ nfail' = nfail + 1
          /\ StartRaises(t)
          /\ UNCHANGED <<opened, stream, live, active>>
       \/ /\ nfail < MaxFailures            \* self._stream.start() raises
          /\ nfail' = nfail + 1
          /\ opened' = opened + 1
          /\ stream' = opened + 1
          /\ live' = live \cup {opened + 1}
          /\ StartRaises(t)
          /\ UNCHANGED active
    /\ UNCHANGED <<ctlVars, queue, frameNo, produced, call, frames, audio, callBefore,
                   callEmits, closedSid, spawned, ncalls, wrkVars, punVars, sigVars>>

\* ------------------------------------ AudioRecorder.stop_and_get_audio steps
\* Lines 113-118: under the lock, return None without a stream; otherwise
\* stop and close it and clear _stream.  Either device call may raise.
StopEnter(t) ==
    /\ pc[t] = "st_enter"
    /\ recLock = NoThread
    /\ IF StopIsNoOp
       THEN /\ StopReturns(t, NoAudio)
            /\ UNCHANGED <<stream, live, active, closedSid, nfail>>
       ELSE \/ /\ active' = active \ {stream}
               /\ live' = live \ {stream}
               /\ stream' = NoStream
               /\ closedSid' = [closedSid EXCEPT ![t] = stream]
               /\ pc' = [pc EXCEPT ![t] = "st_drain"]
               /\ UNCHANGED <<audio, exc, workers, spawned, nfail>>
            \/ /\ nfail < MaxFailures       \* self._stream.stop() raises
               /\ nfail' = nfail + 1
               /\ StopRaises(t)
               /\ UNCHANGED <<stream, live, active, closedSid>>
            \/ /\ nfail < MaxFailures       \* self._stream.close() raises
               /\ nfail' = nfail + 1
               /\ active' = active \ {stream}
               /\ StopRaises(t)
               /\ UNCHANGED <<stream, live, closedSid>>
    /\ UNCHANGED <<ctlVars, opened, queue, frameNo, produced, recLock, call, val, frames,
                   callBefore, callEmits, openFailed, ncalls, published,
                   autoPunct, punVars, sigVars>>

\* Lines 121-125: one iteration of the drain loop, outside the lock.
StopDrain(t) ==
    /\ pc[t] = "st_drain"
    /\ queue # <<>>
    /\ frames' = [frames EXCEPT ![t] = Append(@, Head(queue))]
    /\ queue' = Tail(queue)
    /\ UNCHANGED <<ctlVars, stream, live, active, opened, frameNo, produced, recLock,
                   pc, call, val, audio, exc, histVars, cntVars, wrkVars,
                   punVars, sigVars>>

\* Lines 127-135 with the queue found empty: build the result and return.
StopFinish(t) ==
    /\ pc[t] = "st_drain"
    /\ queue = <<>>
    /\ StopReturns(t, DrainResult(frames[t]))
    /\ UNCHANGED <<ctlVars, recVars, call, val, frames, callBefore, callEmits,
                   openFailed, closedSid, cntVars, published, autoPunct,
                   punVars, sigVars>>

\* ------------------------------------------------------ controller steps
\* A thread enters one of the entry points.
BeginCall(t, c) ==
    /\ pc[t] = "idle"
    /\ ncalls' = ncalls + 1
    /\ call' = [call EXCEPT ![t] = c]
    /\ pc' = [pc EXCEPT ![t] = CASE c = "start" -> "rs_enter"
                                 [] c = "stop_and_get_audio" -> "st_enter"
                                 [] OTHER -> "read_acq"]
    /\ callBefore' = [callBefore EXCEPT ![t] = recording]
    /\ UNCHANGED <<ctlVars, recVars, val, frames, audio, exc, callEmits,
                   openFailed, closedSid, spawned, nfail, wrkVars, punVars, sigVars>>

\* The `recording` property (lines 150-153): take the lock ...
ReadAcquire(t) ==
    /\ pc[t] = "read_acq"
    /\ ctlLock = NoThread
    /\ ctlLock' = t
    /\ pc' = [pc EXCEPT ![t] = "read"]
    /\ UNCHANGED <<recording, recVars, call, val, frames, audio, exc,
                   histVars, cntVars, wrkVars, punVars, sigVars>>

\* ... read the flag, release the lock, and act on the value read.
ReadFlag(t) ==
    /\ pc[t] = "read"
    /\ ctlLock' = NoThread
    /\ LET d == Decision(call[t], recording) IN
       /\ pc' = [pc EXCEPT ![t] = CASE d = "return" -> "done"
                                    [] d = "_start_recording" -> "rs_enter"
                                    [] d = "_stop_and_transcribe" -> "set_acq"]
       /\ val' = [val EXCEPT ![t] = FALSE]
    /\ UNCHANGED <<recording, recVars, call, frames, audio, exc, histVars,
                   cntVars, wrkVars, punVars, sigVars>>

\* _set_recording (lines 155-158): take the lock ...
SetAcquire(t) ==
    /\ pc[t] = "set_acq"
    /\ ctlLock = NoThread
    /\ ctlLock' = t
    /\ pc' = [pc EXCEPT ![t] = "set"]
    /\ UNCHANGED <<recording, recVars, call, val, frames, audio, exc,
                   histVars, cntVars, wrkVars, punVars, sigVars>>

\* Mutant: _set_recording that returns without releasing the lock.
SetFlag_keeps_lock(t) ==
    /\ pc[t] = "set"
    /\ recording' = val[t]
    /\ pc' = [pc EXCEPT ![t] = "emit"]
    /\ UNCHANGED <<ctlLock, recVars, call, val, frames, audio, exc, histVars,
                   cntVars, wrkVars, punVars, sigVars>>

\* ... write the flag and release the lock ...
SetFlag(t) ==
    /\ pc[t] = "set"
    /\ recording' = val[t]
    /\ ctlLock' = NoThread
    /\ pc' = [pc EXCEPT ![t] = "emit"]
    /\ UNCHANGED <<recVars, call, val, frames, audio, exc, histVars, cntVars,
                   wrkVars, punVars, sigVars>>

\* ... and emit recording_changed(value), outside the lock.  After
\* _set_recording(True) _start_recording is over; after _set_recording(False)
\* _stop_and_transcribe calls recorder.stop_and_get_audio().
Emit(t) ==
    /\ pc[t] = "emit"
    /\ lastNotif' = val[t]
    /\ callEmits' = [callEmits EXCEPT ![t] = Append(@, val[t])]
    /\ pc' = [pc EXCEPT ![t] = IF val[t] THEN "done" ELSE "st_enter"]
    /\ UNCHANGED <<ctlVars, recVars, call, val, frames, audio, exc,
                   callBefore, openFailed, closedSid, spawned, cntVars,
                   wrkVars, punVars>>

\* The entry point returns to its caller; the call's locals are gone.
Return(t) ==
    /\ pc[t] = "done"
    /\ pc' = [pc EXCEPT ![t] = "idle"]
    /\ call' = [call EXCEPT ![t] = "none"]
    /\ val' = [val EXCEPT ![t] = FALSE]
    /\ frames' = [frames EXCEPT ![t] = <<>>]
    /\ audio' = [audio EXCEPT ![t] = NoAudio]
    /\ exc' = [exc EXCEPT ![t] = FALSE]
    /\ callBefore' = [callBefore EXCEPT ![t] = FALSE]
    /\ callEmits' = [callEmits EXCEPT ![t] = <<>>]
    /\ openFailed' = [openFailed EXCEPT ![t] = FALSE]
    /\ closedSid' = [closedSid EXCEPT ![t] = NoStream]
    /\ spawned' = [spawned EXCEPT ![t] = 0]
    /\ UNCHANGED <<ctlVars, recVars, cntVars, wrkVars, punVars, sigVars>>

\* ------------------------------------------------- _transcribe_and_emit
\* What self.model.transcribe may do (line 205): raise, or return segments.
\* Segment texts as the model gives them, with their leading blank.
ModelOutcomes ==
    { [raises |-> TRUE,  segs |-> <<>>],
      [raises |-> FALSE, segs |-> <<>>],
      [raises |-> FALSE, segs |-> << <<" ">> >>],
      [raises |-> FALSE, segs |-> << <<" ", "a">>, <<" ", "a", "!">> >>] }

\* Mutant: the joined text is neither trimmed nor tested before it is emitted.
WorkerText_untested(segs, punct) ==
    LET text == Join(segs) IN
    IF punct /\ Strip(text) # <<>> THEN auto_punctuate(text) ELSE text

\* Lines 206-211: the text the worker is about to emit (<<>>: nothing).
WorkerText(segs, punct) ==
    LET text == Strip(Join(segs)) IN
    IF text = <<>> THEN <<>>
    ELSE IF punct THEN auto_punctuate(text) ELSE text

\* A worker is started by a stop call, so there are fewer workers than calls.
WorkerIds == 1..MaxSeqCalls

\* Mutant: _transcribe_and_emit without its try / except.
WorkerResult_uncaught(o, punct) ==
    IF o.raises THEN [st |-> "crashed", text |-> <<>>]
    ELSE LET text == WorkerText(o.segs, punct) IN
         [st |-> IF text = <<>> THEN "done" ELSE "emit", text |-> text]

\* Where the worker stands after the model call: an exception is caught at
\* lines 213-214 and ends it, an empty text ends it at line 209, any other
\* text is emitted next.
WorkerResult(o, punct) ==
    IF o.raises THEN [st |-> "done", text |-> <<>>]
    ELSE LET text == WorkerText(o.segs, punct) IN
         [st |-> IF text = <<>> THEN "done" ELSE "emit", text |-> text]

\* Lines 199-211 and 213-214: the model call returns or raises.
WorkerInfer(w) ==
    /\ w \in 1..Len(workers)
    /\ workers[w].st = "infer"
    /\ \E o \in ModelOutcomes :
          LET r == WorkerResult(o, autoPunct) IN
          workers' = [workers EXCEPT ![w].st = r.st, ![w].text = r.text,
                                     ![w].out = o]
    /\ UNCHANGED <<ctlVars, recVars, thrVars, histVars, cntVars, published,
                   autoPunct, punVars, sigVars>>

\* Mutant: the text is emitted twice.
WorkerEmit_twice(w) ==
    /\ w \in 1..Len(workers)
    /\ workers[w].st = "emit"
    /\ published' = published \o << [w |-> w, text |-> workers[w].text],
                                     [w |-> w, text |-> workers[w].text] >>
    /\ workers' = [workers EXCEPT ![w].st = "done"]
    /\ UNCHANGED <<ctlVars, recVars, thrVars, histVars, cntVars, autoPunct,
                   punVars, sigVars>>

\* Line 212: self.events.text_ready.emit(text).
WorkerEmit(w) ==
    /\ w \in 1..Len(workers)
    /\ workers[w].st = "emit"
    /\ published' = Append(published, [w |-> w, text |-> workers[w].text])
    /\ workers' = [workers EXCEPT ![w].st = "done"]
    /\ UNCHANGED <<ctlVars, recVars, thrVars, histVars, cntVars, autoPunct,
                   punVars, sigVars>>

\* ------------------------------------------------------ auto_punctuate runs
RECURSIVE TextsOfLen(_)
TextsOfLen(n) == IF n = 0 THEN {<<>>}
                 ELSE {Append(s, c) : s \in TextsOfLen(n - 1), c \in Alphabet}

Texts == UNION {TextsOfLen(n) : n \in 0..MaxLen}

Unset == <<"unset">>

Punctuate ==
    /\ output = Unset
    /\ output' = auto_punctuate(input)
    /\ UNCHANGED <<ctlVars, recVars, thrVars, histVars, cntVars, wrkVars, input,
                   sigVars>>

\* ------------------------------------------------------------ specifications
InitCore ==
    /\ recording = FALSE
    /\ ctlLock = NoThread
    /\ stream = NoStream
    /\ live = {}
    /\ active = {}
    /\ opened = 0
    /\ queue = <<>>
    /\ frameNo = 0
    /\ produced = <<>>
    /\ recLock = NoThread
    /\ pc = [t \in Threads |-> "idle"]
    /\ call = [t \in Threads |-> "none"]
    /\ val = [t \in Threads |-> FALSE]
    /\ frames = [t \in Threads |-> <<>>]
    /\ audio = [t \in Threads |-> NoAudio]
    /\ exc = [t \in Threads |-> FALSE]
    /\ callBefore = [t \in Threads |-> FALSE]
    /\ callEmits = [t \in Threads |-> <<>>]
    /\ openFailed = [t \in Threads |-> FALSE]
    /\ closedSid = [t \in Threads |-> NoStream]
    /\ spawned = [t \in Threads |-> 0]
    /\ ncalls = 0
    /\ nfail = 0
    /\ workers = <<>>
    /\ published = <<>>
    /\ lastNotif = FALSE

\* config["auto_punct"] is read from the configuration file at start-up.
Init ==
    /\ InitCore
    /\ autoPunct \in BOOLEAN
    /\ input = <<>>
    /\ output = Unset

RecorderSteps ==
    \/ \E t \in Threads : StartEnter(t)
    \/ \E t \in Threads : StartOpen(t)
    \/ \E t \in Threads : StopEnter(t)
    \/ \E t \in Threads : StopDrain(t)
    \/ \E t \in Threads : StopFinish(t)
    \/ \E t \in Threads : Return(t)
    \/ AudioCallback

ControllerSteps ==
    \/ \E t \in Threads : ReadAcquire(t)
    \/ \E t \in Threads : ReadFlag(t)
    \/ \E t \in Threads : SetAcquire(t)
    \/ \E t \in Threads : SetFlag(t)
    \/ \E t \in Threads : Emit(t)
    \/ \E w \in WorkerIds : WorkerInfer(w)
    \/ \E w \in WorkerIds : WorkerEmit(w)

\* Trigger calls from independent threads, in any interleaving.
Trigger ==
    \E t \in Threads, c \in Triggers : ncalls < MaxCalls /\ BeginCall(t, c)

\* start() meets frames left in the queue only when it runs beside another
\* call's stop_and_get_audio.
StaleDrain == \E t \in Threads : StartDrain(t)

Next == Trigger \/ ControllerSteps \/ RecorderSteps \/ StaleDrain

Spec == Init /\ [][Next]_vars

\* Trigger calls one after another: a call begins when no call is running.
AllIdle == \A t \in Threads : pc[t] = "idle"

SeqTrigger ==
    \E t \in Threads, c \in Triggers :
        ncalls < MaxSeqCalls /\ AllIdle /\ BeginCall(t, c)

\* With the calls in sequence start() always finds the queue empty
\* (SeqQueueEmptyAtStart), so StartDrain is no step of SeqNext.
SeqNext == SeqTrigger \/ ControllerSteps \/ RecorderSteps

SeqQueueEmptyAtStart == \A t \in Threads : pc[t] = "rs_drain" => queue = <<>>

SeqSpec == Init /\ [][SeqNext]_vars

\* The worker threads are scheduled fairly by the operating system.
SeqFairSpec ==
    /\ SeqSpec
    /\ \A w \in WorkerIds : WF_vars(WorkerInfer(w)) /\ WF_vars(WorkerEmit(w))

\* The recorder alone: threads call start and stop_and_get_audio directly.
RecInit ==
    /\ InitCore
    /\ autoPunct = TRUE
    /\ input = <<>>
    /\ output = Unset

DirectCall ==
    \E t \in Threads, c \in Direct : ncalls < MaxRecCalls /\ BeginCall(t, c)

RecNext == DirectCall \/ RecorderSteps \/ StaleDrain

RecorderSpec == RecInit /\ [][RecNext]_vars

\* Everything one thread does inside an entry point.
ThreadStep(t) ==
    \/ ReadAcquire(t)
    \/ ReadFlag(t)
    \/ SetAcquire(t)
    \/ SetFlag(t)
    \/ Emit(t)
    \/ StartEnter(t)
    \/ StartDrain(t)
    \/ StartOpen(t)
    \/ StopEnter(t)
    \/ StopDrain(t)
    \/ StopFinish(t)
    \/ Return(t)

FairTrigger ==
    \E t \in Threads, c \in Triggers : ncalls < MaxFairCalls /\ BeginCall(t, c)

\* Concurrent trigger calls whose threads are scheduled fairly, while the
\* worker threads they start never get to run.
FairNext == FairTrigger \/ (\E t \in Threads : ThreadStep(t)) \/ AudioCallback

FairSpec ==
    /\ RecInit
    /\ [][FairNext]_vars
    /\ \A t \in Threads : WF_vars(ThreadStep(t))

\* auto_punctuate alone, on every text of at most MaxLen characters.
PunctInit ==
    /\ InitCore
    /\ autoPunct = TRUE
    /\ input \in Texts
    /\ output = Unset

PunctSpec == PunctInit /\ [][Punctuate]_vars

\* ===================================================================== claims
IsTrigger(t) == call[t] \in Triggers

\* C1: with the trigger calls executed one after another, a call that changes
\* the recording flag emits recording_changed exactly once, carrying the new
\* value, and a call that leaves the flag as it was emits nothing.
C1_NotifyOncePerTransition ==
    \A t \in Threads :
        /\ Len(callEmits[t]) <= 1
        /\ (pc[t] = "done" /\ IsTrigger(t)) =>
               callEmits[t] = IF recording # callBefore[t] THEN <<recording>>
                              ELSE <<>>

\* A hold_to_talk_up call has taken the controller from Recording to Idle and
\* emitted recording_changed(False) once.
C1_Witness ==
    \E t \in Threads :
        /\ pc[t] = "done" /\ call[t] = "hold_to_talk_up"
        /\ callBefore[t] /\ ~recording /\ callEmits[t] = <<FALSE>>

\* C2: under any interleaving of concurrent trigger calls at most one input
\* stream is open: no stream is opened while another is still open.
C2_AtMostOneStream ==
    /\ Cardinality(live) <= 1
    /\ active \subseteq live
    /\ live \subseteq {stream}

\* A second start arrives while the stream opened by the first is still open.
C2_Witness ==
    \E t \in Threads :
        pc[t] = "rs_enter" /\ stream # NoStream /\ stream \in active

\* C3 (as claimed): between a trigger call's read of the recording flag and
\* that call's write of the flag, no other trigger call reads or writes it.
InWindow(t) == IsTrigger(t) /\ pc[t] \in {"rs_enter", "rs_drain", "set_acq", "set"}

AccessesFlag(u) == pc[u] \in {"read", "set"} /\ pc'[u] # pc[u]

C3_ReadAndTransitionAtomic ==
    [][\A t, u \in Threads : (t # u /\ InWindow(t)) => ~AccessesFlag(u)]_vars

\* C4 (as claimed): the controller calls stop_and_get_audio only while the
\* recorder has a stream: never against a recorder whose stream is closed.
C4_StopOnlyWhenOpen ==
    \A t \in Threads : (IsTrigger(t) /\ pc[t] = "st_enter") => stream # NoStream

\* C5: when the device open fails in a trigger call made in Idle, the
\* exception does not leave the call, the flag is still Idle when the call
\* returns, and the call has emitted no recording_changed.
C5_OpenFailureStaysIdle ==
    \A t \in Threads :
        (pc[t] = "done" /\ IsTrigger(t) /\ openFailed[t]) =>
            /\ ~exc[t]
            /\ ~callBefore[t] /\ ~recording
            /\ callEmits[t] = <<>>

\* A toggle_recording call made in Idle has returned after the open failed.
C5_Witness ==
    \E t \in Threads :
        pc[t] = "done" /\ call[t] = "toggle_recording" /\ openFailed[t]

\* C6: a session whose stream delivered no frame between start and stop makes
\* stop_and_get_audio return None; the controller starts no worker on it and
\* no text_ready is ever emitted for it.
SessionFrames(sid) == {i \in 1..Len(produced) : SidOf(produced[i]) = sid}

TimesPublished(w) == Cardinality({i \in 1..Len(published) : published[i].w = w})

HasText(w) == w \in 1..Len(workers) /\ workers[w].st = "emit"

C7_BothPublishedOnce ==
    /\ \A w \in WorkerIds : HasText(w) ~> (TimesPublished(w) = 1)
    /\ [](\A w \in WorkerIds : TimesPublished(w) <= 1)
    /\ [][\A w \in WorkerIds : TimesPublished(w)' >= TimesPublished(w)]_vars

\* Two workers have published, the one submitted second first.
C7_Witness ==
    /\ Len(published) = 2
    /\ published[1].w = 2 /\ published[2].w = 1
    /\ TimesPublished(1) = 1 /\ TimesPublished(2) = 1

\* C8 (as claimed): a text that ends with ., ? or ! is returned by
\* auto_punctuate unchanged.
EndsTerminal(s) == s # <<>> /\ s[Len(s)] \in Terminal

C8_PunctuatedUnchanged ==
    (output # Unset /\ EndsTerminal(input)) => output = input

\* C8 (amended): a text that ends with ., ? or ! gets no period appended; it
\* is returned without its leading whitespace and with its first character
\* upper-cased, so it is unchanged exactly when it starts with a character
\* that is no whitespace and that upper-casing leaves alone.
C8_PunctuatedNoPeriodAdded ==
    (output # Unset /\ EndsTerminal(input)) =>
        LET s == LStrip(input) IN
        /\ output = Upper(s[1]) \o Tail(s)
        /\ (output = input) <=> (input[1] # " " /\ Upper(input[1]) = <<input[1]>>)

\* "a!" has been given to auto_punctuate, which returned "A!".
C8_Witness ==
    input = <<"a", "!">> /\ output = <<"A", "!">>

\* C9: a start() that finds a stream set returns without raising and leaves
\* the stream, the device and the FIFO as they were: no second stream, no
\* frame lost.
C9_StartIdempotent ==
    [][\A t \in Threads :
          (pc[t] = "rs_enter" /\ pc'[t] # "rs_enter" /\ stream # NoStream) =>
              /\ pc'[t] = (IF IsTrigger(t) THEN "set_acq" ELSE "done")
              /\ ~exc'[t]
              /\ UNCHANGED <<stream, live, active, opened, queue>>]_vars

\* Two start() calls have returned, one stream was opened, and the frames it
\* delivered are in the FIFO.
C9_Witness ==
    /\ \A t \in Threads : pc[t] = "done" /\ call[t] = "start" /\ ~exc[t]
    /\ opened = 1 /\ stream = 1 /\ active = {1}
    /\ Len(queue) = 2

\* C10: a stop_and_get_audio() that finds no stream returns None without
\* raising and leaves the stream, the device and the FIFO as they were.
C10_StopWithoutStream ==
    [][\A t \in Threads :
          (pc[t] = "st_enter" /\ pc'[t] # "st_enter" /\ stream = NoStream) =>
              /\ pc'[t] = "done"
              /\ audio'[t] = NoAudio
              /\ ~exc'[t]
              /\ UNCHANGED <<stream, live, active, opened, queue>>]_vars

\* stop_and_get_audio() has returned None before any start() was made.
C10_Witness ==
    \E t \in Threads :
        /\ pc[t] = "done" /\ call[t] = "stop_and_get_audio"
        /\ opened = 0 /\ nfail = 0
        /\ audio[t] = NoAudio /\ ~exc[t]

\* C11: a worker whose joined segment text holds nothing but whitespace ends
\* without emitting text_ready, with auto-punctuation enabled or disabled.
Blank(text) == \A i \in 1..Len(text) : text[i] = " "

GotBlankText(w) ==
    /\ w \in 1..Len(workers)
    /\ workers[w].st # "infer"
    /\ ~workers[w].out.raises
    /\ Blank(Join(workers[w].out.segs))

C11_BlankTextNotPublished ==
    \A w \in WorkerIds :
        GotBlankText(w) => workers[w].st = "done" /\ TimesPublished(w) = 0

\* With auto-punctuation disabled, a worker was given a single blank segment.
C11_Witness ==
    \E w \in WorkerIds :
        GotBlankText(w) /\ workers[w].out.segs # <<>> /\ ~autoPunct

\* C12: when the model call raises in a worker, the exception is caught in
\* the worker and nothing is emitted for its clip; and no step of a worker
\* changes the recording flag, the locks, the recorder, a trigger call in
\* progress or another worker.
ModelRaised(w) ==
    w \in 1..Len(workers) /\ workers[w].st # "infer" /\ workers[w].out.raises

WorkerSteps(w) ==
    /\ w \in 1..Len(workers)
    /\ w \in 1..Len(workers')
    /\ workers'[w] # workers[w]

C12_WorkerFailureContained ==
    /\ [](\A w \in WorkerIds :
             ModelRaised(w) => workers[w].st = "done" /\ TimesPublished(w) = 0)
    /\ [][\A w \in WorkerIds :
             WorkerSteps(w) =>
                 /\ UNCHANGED <<ctlVars, recVars, thrVars>>
                 /\ Len(workers') = Len(workers)
                 /\ \A v \in 1..Len(workers) : v # w => workers'[v] = workers[v]
                 /\ ModelRaised(w)' => published' = published]_vars

\* The model call has raised in one worker while another is about to emit.
C12_Witness ==
    \E w, v \in WorkerIds :
        /\ ModelRaised(w)
        /\ v \in 1..Len(workers) /\ workers[v].st = "emit"

\* C13 (as claimed): when the device open fails in start(), whether the
\* constructor or the stream's start() raises, the recorder is left with no
\* stream, so that a later start() opens the device again.
C13_FailedOpenLeavesNoStream ==
    \A t \in Threads :
        (pc[t] = "done" /\ IsTrigger(t) /\ openFailed[t]) =>
            stream = NoStream /\ live = {}

\* C14 (as claimed): while a stop_and_get_audio drains the FIFO no stream is
\* open, so no callback can enqueue a frame during the drain.
C14_NoProducerDuringDrain ==
    \A t \in Threads : pc[t] = "st_drain" => stream = NoStream /\ active = {}

\* C15 (as claimed): the clip returned by the stop_and_get_audio that closed a
\* session holds exactly the frames its stream delivered, in delivery order
\* (None when it delivered none).
RECURSIVE SessionClip(_, _)
SessionClip(sid, samples) ==
    IF samples = <<>> THEN <<>>
    ELSE IF SidOf(Head(samples)) = sid
         THEN <<Head(samples)>> \o SessionClip(sid, Tail(samples))
         ELSE SessionClip(sid, Tail(samples))

C15_ClipIsItsSession ==
    \A t \in Threads :
        (pc[t] = "done" /\ call[t] = "stop_and_get_audio" /\ closedSid[t] # NoStream) =>
            audio[t].data = SessionClip(closedSid[t], produced)

\* C16 (as claimed): for a non-empty trimmed text t the result is t with its
\* first character upper-cased and a period appended exactly when t does not
\* end with ., ? or !: every other character stays where it is and no other
\* character is inserted or removed.
Trimmed(s) == s # <<>> /\ s[1] # " " /\ s[Len(s)] # " "

NeedsPeriod(s) == s[Len(s)] \notin Terminal

C16_OnlyFirstAndPeriodChange ==
    (output # Unset /\ Trimmed(input)) =>
        /\ Len(output) = Len(input) + (IF NeedsPeriod(input) THEN 1 ELSE 0)
        /\ <<output[1]>> = Upper(input[1])
        /\ \A i \in 2..Len(input) : output[i] = input[i]
        /\ NeedsPeriod(input) => output[Len(output)] = "."

\* C16 (amended): the result is the upper-casing of the first character of t,
\* which may be more than one character long, followed by the rest of t
\* unchanged and in order, followed by one period exactly when t does not end
\* with ., ? or !.
C16_UpperFirstRestPeriod ==
    (output # Unset /\ Trimmed(input)) =>
        LET k == Len(Upper(input[1])) IN
        /\ Len(output) = k + (Len(input) - 1) + (IF NeedsPeriod(input) THEN 1 ELSE 0)
        /\ SubSeq(output, 1, k) = Upper(input[1])
        /\ \A i \in 2..Len(input) : output[k + i - 1] = input[i]
        /\ NeedsPeriod(input) => output[Len(output)] = "."

\* A text that starts with the sharp s and has an interior period was given
\* to auto_punctuate.
C16_Witness ==
    input = <<"sz", ".", "a">> /\ output = <<"S", "S", ".", "a", ".">>

\* C17: toggle_recording has the effect of hold_to_talk_down when called in
\* Idle and of hold_to_talk_up when called in Recording: the same flag, the
\* same recorder state, the same notifications and the same submission; two
\* toggles in a row from Idle end in Idle with exactly one closed session.
StartEffect(t) ==
    /\ closedSid[t] = NoStream
    /\ spawned[t] = 0
    /\ IF openFailed[t]
       THEN ~recording /\ callEmits[t] = <<>>
       ELSE recording /\ callEmits[t] = <<TRUE>> /\ stream # NoStream

StopEffect(t) ==
    /\ ~recording
    /\ callEmits[t] = <<FALSE>>
    /\ ~openFailed[t]
    /\ closedSid[t] # NoStream => stream = NoStream /\ live = {}
    /\ closedSid[t] = NoStream => audio[t] = NoAudio
    /\ spawned[t] # 0 <=> ~NothingToSubmit(audio[t])

ActsAsDown(t) ==
    ~callBefore[t] /\ call[t] \in {"toggle_recording", "hold_to_talk_down"}

ActsAsUp(t) ==
    callBefore[t] /\ call[t] \in {"toggle_recording", "hold_to_talk_up"}

C17_ToggleIsDownOrUp ==
    \A t \in Threads : pc[t] = "done" =>
        /\ ActsAsDown(t) => StartEffect(t)
        /\ ActsAsUp(t) => StopEffect(t)
        /\ (ActsAsUp(t) /\ ncalls = 2 /\ nfail = 0) =>
               opened = 1 /\ closedSid[t] = 1 /\ stream = NoStream

\* The second of two calls is a toggle made in Recording; it closed the
\* session and submitted its clip.
C17_Witness ==
    \E t \in Threads :
        /\ pc[t] = "done" /\ call[t] = "toggle_recording" /\ callBefore[t]
        /\ ncalls = 2 /\ nfail = 0 /\ spawned[t] # 0

\* C18: whenever no trigger call is in progress, the flag is Recording
\* exactly when the recorder has an open stream (no device call failing).
C18_FlagMatchesStream ==
    (AllIdle /\ nfail = 0) => (recording <=> stream # NoStream)

\* C19: whenever no trigger call is in progress, the value the last
\* recording_changed notification carried is the current flag (Idle when no
\* notification was emitted yet).
C19_LastNotificationIsFlag ==
    AllIdle => lastNotif = recording

\* C20: no thread ever holds the controller lock and the recorder lock at
\* once, a lock is only held by a thread that can take its next step, and
\* every trigger call returns under fair scheduling even though no
\* transcription worker ever runs.  The calls of a run are finitely many, so
\* every call returns exactly when every thread ends up idle for good.
HoldsCtl(t) == ctlLock = t
HoldsRec(t) == recLock = t

C20_NoDeadlockCallsReturn ==
    /\ [](\A t \in Threads :
            /\ ~(HoldsCtl(t) /\ HoldsRec(t))
            /\ HoldsCtl(t) => pc[t] \in {"read", "set"}
            /\ HoldsRec(t) => pc[t] = "rs_drain")
    /\ \A t \in Threads : <>[](pc[t] = "idle")

\* A call has returned after starting a worker that has not run, while the
\* other thread holds the controller lock.
C20_Witness ==
    \E t, u \in Threads :
        /\ pc[t] = "idle" /\ HoldsCtl(u)
        /\ \E w \in 1..Len(workers) : workers[w].st = "infer"

====
